---- MODULE Spec2Model ----
(***************************************************************************)
(* A model of the box builder core: the step wrapper (wrapVerbFunc), the   *)
(* DSL verbs (from, run, copy, env, cmd, entrypoint, with_user, inside),   *)
(* and the Builder entry points (NewBuilder, Run, RunScript, RunCode,      *)
(* Wait).                                                                  *)
(*                                                                         *)
(* The mruby evaluator is opaque: a script is modelled as the sequence of  *)
(* verb calls the evaluator makes, chosen nondeterministically, with the   *)
(* stack of open blocks and the exception that unwinds it.                 *)
(***************************************************************************)
EXTENDS Integers, Sequences, FiniteSets, TLC

----------------------------------------------------------------------------
(* Bounds *)

\* operations in one behaviour: calls of Run, RunScript and RunCode, and
\* verbs and functions called by the scripts
MaxOps == 4
\* open with_user / inside blocks
MaxDepth == 2
\* Builders that run from(ref) concurrently
NumBuilders == 3

----------------------------------------------------------------------------
(* Text: strings are kept as TLA+ strings in the state; Bytes gives their  *)
(* bytes, on which the cache key is computed.                              *)

Bytes(s) ==
    CASE s = "from"       -> <<102, 114, 111, 109>>
      [] s = "run"        -> <<114, 117, 110>>
      [] s = "copy"       -> <<99, 111, 112, 121>>
      [] s = "env"        -> <<101, 110, 118>>
      [] s = "debug"      -> <<100, 101, 98, 117, 103>>
      [] s = "alpine"     -> <<97, 108, 112, 105, 110, 101>>
      [] s = "busybox"    -> <<98, 117, 115, 121, 98, 111, 120>>
      [] s = "a"          -> <<97>>
      [] s = "b"          -> <<98>>
      [] s = "a, b"       -> <<97, 44, 32, 98>>
      [] s = "f"          -> <<102>>
      [] s = "/t"         -> <<47, 116>>
      [] s = "A"          -> <<65>>
      [] s = "B"          -> <<66>>
      [] s = "1"          -> <<49>>
      [] s = "2"          -> <<50>>
      [] s = ", "         -> <<44, 32>>
      [] s = ""           -> <<>>

RECURSIVE Concat(_)
\* the concatenation of a sequence of byte sequences
Concat(ss) == IF ss = <<>> THEN <<>> ELSE Head(ss) \o Concat(Tail(ss))

RECURSIVE Join(_, _)
\* strings.Join(elems, sep), on byte sequences
Join(elems, sep) ==
    IF elems = <<>> THEN <<>>
    ELSE IF Len(elems) = 1 THEN Head(elems)
    ELSE Head(elems) \o sep \o Join(Tail(elems), sep)

\* the sextets of one group of one, two or three bytes; 64 is the pad '='
Base64Group(g) ==
    LET b1 == g[1]
        b2 == IF Len(g) >= 2 THEN g[2] ELSE 0
        b3 == IF Len(g) >= 3 THEN g[3] ELSE 0
    IN  << b1 \div 4,
           (b1 % 4) * 16 + (b2 \div 16),
           IF Len(g) >= 2 THEN (b2 % 16) * 4 + (b3 \div 64) ELSE 64,
           IF Len(g) >= 3 THEN b3 % 64 ELSE 64 >>

RECURSIVE Base64(_)
\* base64.StdEncoding.EncodeToString, as indices into the standard alphabet
Base64(bs) ==
    IF bs = <<>> THEN <<>>
    ELSE IF Len(bs) <= 3 THEN Base64Group(bs)
    ELSE Base64Group(SubSeq(bs, 1, 3)) \o Base64(SubSeq(bs, 4, Len(bs)))

\* script values: the Go nil pointer, the ruby nil, a ruby string, a ruby hash
\* (a sequence of key/value pairs in the order of its keys)
GoNil    == [kind |-> "nil", s |-> ""]
RubyNil  == [kind |-> "rnil", s |-> ""]
Str(s)   == [kind |-> "str", s |-> s]
Hash(h)  == [kind |-> "hash", h |-> h]

\* the script values of a list of strings
Strs(ss) == [i \in 1..Len(ss) |-> Str(ss[i])]

\* mruby renders a hash as {"K"=>"V", ...}
RenderHash(h) ==
    <<123>> \o
    Join([i \in 1..Len(h) |->
            <<34>> \o Bytes(h[i][1]) \o <<34, 61, 62, 34>> \o Bytes(h[i][2]) \o <<34>>],
         Bytes(", "))
    \o <<125>>

\* the string form of one script value
RenderArg(a) == IF a.kind = "hash" THEN RenderHash(a.h) ELSE Bytes(a.s)

\* extractStringArgs: the string form of every argument
extractStringArgs(args) == [i \in 1..Len(args) |-> RenderArg(args[i])]

\* cacheKey of wrapVerbFunc: base64(join(", ", name : strArgs))
Fingerprint(name, args) ==
    Base64(Join(<<Bytes(name)>> \o extractStringArgs(args), Bytes(", ")))

----------------------------------------------------------------------------
(* Inputs of the scripts *)

Refs       == {"alpine", "busybox"}
RunArgs    == {<<"a", "b">>, <<"a, b">>}
CmdArgs    == {<<"a">>}
EnvMaps    == {<< <<"A", "1">>, <<"B", "2">> >>}
CopyArgs   == {<<"f", "/t">>}
Users      == {"root"}
Dirs       == {"/d"}
FileName   == "Boxfile"
ShellEntrypoint == <<"/bin/sh", "-c">>
\* the diagnostic of run (the source quotes from and run in backquotes)
FromMessage == "from must precede any run statements"

\* the zero BuildResult
NoResult == [FileName |-> "", Value |-> GoNil, Err |-> ""]

InitConfig ==
    [Entrypoint |-> <<>>, Cmd |-> <<>>, Env |-> <<>>, User |-> "", WorkingDir |-> "",
     Tty |-> FALSE, AttachStdout |-> FALSE, AttachStderr |-> FALSE]

NoProbe   == [verb |-> "", args |-> <<>>, key |-> <<>>, res |-> "none"]
NoHandler == [verb |-> "", at |-> "", key |-> <<>>, commit |-> FALSE]
NoCommit  == [verb |-> "", fp |-> <<>>, hook |-> FALSE, parent |-> "",
              cfg |-> InitConfig, outcome |-> "none"]

----------------------------------------------------------------------------
VARIABLES
    config,       \* the container config (b.config in the verbs, exec.Config())
    imageID,      \* the latest image (b.imageID, exec.Image().ImageID())
    insideDir,    \* b.insideDir
    bEntrypoint,  \* b.entrypoint
    bCmd,         \* b.cmd
    afterFunc,    \* b.afterFunc is set
    result,       \* b.result
    runner,       \* b.config.Runner: "open" or "closed"
    ctx,          \* b.config.Context: "live" or "canceled"
    cache,        \* the executor's cache: fingerprint -> image id
    nImages,      \* images the executor has produced
    layers,       \* per image the executor has produced: what it was made of
    issued,       \* ImagePull calls received by the runtime client, per ref
    call,         \* the entry point in progress: "none", "Run", "RunScript", "RunCode"
    phase,        \* "idle", "eval" (script running), "raise" (exception unwinding)
    blocks,       \* stack of the open with_user / inside blocks
    val,          \* value of the last statement evaluated
    cm,           \* position of copy in the evaluator's thread
    gos,          \* the commit goroutines started by copy
    panicked,     \* the Go panic that ended the process, or ""
    nRun,         \* Run calls that have exited
    nClose,       \* close(Runner) operations that succeeded
    ret,          \* what the last entry point returned
    runRet,       \* what the last Run returned, until another entry point is called
    post,         \* post-evaluation steps of the last entry point, in order
    lastProbe,    \* the cache probe of the last wrapped step
    lastHandler,  \* the handler invocation of the last step
    lastCommit,   \* the last commit requested of the executor
    trace,        \* the statements the script in progress has executed
    prev,         \* the last script a new Builder ran without error, and its image
    steps,        \* verb invocations so far
    calls,        \* entry point calls so far
    pulls,        \* the package-level pulls map (its keys)
    pc,           \* per concurrent Builder: position in from
    pullImage     \* per concurrent Builder: its b.imageID

cfgVars  == <<config, insideDir, bEntrypoint, bCmd>>
execVars == <<imageID, cache, nImages, layers, issued>>
evalVars == <<call, phase, blocks, val>>
copyVars == <<cm, gos>>
apiVars  == <<afterFunc, result, runner, panicked, nRun, nClose, ret, runRet, post>>
obsVars  == <<lastProbe, lastHandler, lastCommit>>
histVars == <<trace, prev>>
cntVars  == <<steps, calls>>
pullVars == <<pulls, pc, pullImage>>
vars == <<cfgVars, execVars, evalVars, copyVars, apiVars, obsVars, histVars, cntVars,
          pullVars, ctx>>

NoCopy == [at |-> "none", id |-> 0]
NoPrev == [set |-> FALSE, stmts |-> <<>>, image |-> ""]
\* the trace of a Builder whose scripts are not followed, and of one whose
\* scripts are (a build that is run again)
NoTrace   == [on |-> FALSE, fresh |-> TRUE, stmts |-> <<>>]
Recording == [on |-> TRUE, fresh |-> TRUE, stmts |-> <<>>]

\* the state after NewBuilder, with the trace t
Built(t) ==
    /\ config = InitConfig
    /\ imageID = ""
    /\ insideDir = ""
    /\ bEntrypoint = <<>>
    /\ bCmd = <<>>
    /\ afterFunc = FALSE
    /\ result = NoResult
    /\ runner = "open"
    /\ ctx = "live"
    /\ cache = [k \in {} |-> ""]
    /\ nImages = 0
    /\ layers = [i \in {} |-> ""]
    /\ issued = [r \in Refs |-> 0]
    /\ call = "none"
    /\ phase = "idle"
    /\ blocks = <<>>
    /\ val = RubyNil
    /\ cm = NoCopy
    /\ gos = {}
    /\ panicked = ""
    /\ nRun = 0
    /\ nClose = 0
    /\ ret = [op |-> "", result |-> NoResult]
    /\ runRet = [set |-> FALSE, result |-> NoResult]
    /\ post = <<>>
    /\ lastProbe = NoProbe
    /\ lastHandler = NoHandler
    /\ lastCommit = NoCommit
    /\ trace = t
    /\ prev = NoPrev
    /\ steps = 0
    /\ calls = 0
    /\ pulls = {}
    /\ pc = [p \in 1..NumBuilders |-> "idle"]
    /\ pullImage = [p \in 1..NumBuilders |-> ""]

Init == Built(NoTrace)

\* a build whose scripts are followed
InitRerun == Built(Recording)

----------------------------------------------------------------------------
(* The executor, as the builder uses it *)

\* the id of the next image the executor produces
NewImage == "img" \o ToString(nImages + 1)

\* the layers with the next image recorded as made by the step verb(args), or
\* by MakeImage, on the image parent with the config cfg
AddLayer(verb, args, parent, cfg) ==
    [i \in (DOMAIN layers) \cup {NewImage} |->
        IF i = NewImage
        THEN [verb |-> verb, args |-> args, parent |-> parent, cfg |-> cfg]
        ELSE layers[i]]

\* the cache with fp recorded as producing img
CachePut(fp, img) ==
    [k \in (DOMAIN cache) \cup {fp} |-> IF k = fp THEN img ELSE cache[k]]

\* Image().CheckCache(fp): a lookup, or an error of the executor
CheckCache(fp) == {"err", IF fp \in DOMAIN cache THEN "hit" ELSE "miss"}

\* the ways a commit ends: done, failed in the executor (creating the
\* container, taking the snapshot), or failed in the run-hook (which includes
\* a command that exits with a status other than 0)
CommitOutcomes(hook) ==
    IF hook THEN {"ok", "commit", "hook"} ELSE {"ok", "commit"}

\* Commit(fp, hook) on the image parent with the config cfg: on success a new
\* image becomes the current one and the cache records it under fp
Commit(verb, fp, hook, cfg, parent, outcome) ==
    /\ lastCommit' = [verb |-> verb, fp |-> fp, hook |-> hook, parent |-> parent,
                      cfg |-> cfg, outcome |-> outcome]
    /\ IF outcome = "ok"
       THEN /\ imageID' = NewImage
            /\ nImages' = nImages + 1
            /\ cache' = CachePut(fp, NewImage)
            /\ layers' = AddLayer(verb, lastProbe'.args, parent, cfg)
       ELSE /\ imageID' = parent
            /\ UNCHANGED <<nImages, cache, layers>>

\* b.commit(hook) of the verbs / makeLayer: the commit carries the step's cache key
makeLayer(verb, key, useHook, cfg, parent, outcome) ==
    Commit(verb, key, useHook, cfg, parent, outcome)

----------------------------------------------------------------------------
(* Exceptions *)

\* createException: the verb returns a ruby exception, which unwinds the script
createException ==
    /\ phase' = "raise"
    /\ val' = RubyNil

\* the test of wrapVerbFunc without the exception made for debug
invokesHandlerNoDebug(name, cached) == cached = "miss"

\* the test of wrapVerbFunc on the result of the probe: the handler runs on a
\* miss, and always for debug
invokesHandler(name, cached) == cached = "miss" \/ name = "debug"

----------------------------------------------------------------------------
(* The verbs *)

\* the record of a handler invoked with key, which did or did not ask for a commit
Handled(verb, key, commit) ==
    [verb |-> verb, at |-> "call", key |-> key, commit |-> commit]

\* from: what it does to the config
fromConfig(cfg) ==
    [cfg EXCEPT !.Tty = TRUE, !.AttachStdout = TRUE, !.AttachStderr = TRUE]

from(args, key, img) ==
    \E pull \in {"ok", "pull", "stream"} :
        /\ imageID' = args[1].s
        /\ config' = fromConfig(config)
        /\ issued' = [issued EXCEPT ![args[1].s] = @ + 1]
        /\ IF pull = "ok"
           THEN phase' = "eval" /\ val' = args[1]
           ELSE createException
        /\ lastHandler' = Handled("from", key, FALSE)
        /\ UNCHANGED <<insideDir, bEntrypoint, bCmd, cache, nImages, layers, copyVars,
                       lastCommit>>

\* run: the config the container of the step runs with
runOverride(cfg, args, dir) ==
    [cfg EXCEPT !.Entrypoint = ShellEntrypoint,
                !.Cmd = args,
                !.WorkingDir = IF dir # "" THEN dir ELSE @]

\* a restoration that forgets the working directory
runRestoreNoDir(cfg, entrypoint_, cmd_, wd) ==
    [cfg EXCEPT !.Entrypoint = entrypoint_, !.Cmd = cmd_]

\* run: the deferred restoration
runRestore(cfg, entrypoint_, cmd_, wd) ==
    [cfg EXCEPT !.Entrypoint = entrypoint_, !.Cmd = cmd_, !.WorkingDir = wd]

run(args, key, img) ==
    IF img = ""
    THEN /\ phase' = "eval"
         /\ val' = Str(FromMessage)
         /\ imageID' = img
         /\ lastHandler' = Handled("run", key, FALSE)
         /\ UNCHANGED <<cfgVars, cache, nImages, layers, issued, copyVars, lastCommit>>
    ELSE \E outcome \in CommitOutcomes(TRUE) :
         LET stringArgs == [i \in 1..Len(args) |-> args[i].s]
             over == runOverride(config, stringArgs, insideDir)
         IN
         /\ makeLayer("run", key, TRUE, over, img, outcome)
         /\ config' = runRestore(over, config.Entrypoint, config.Cmd, config.WorkingDir)
         /\ IF outcome = "ok"
            THEN phase' = "eval" /\ val' = RubyNil
            ELSE createException
         /\ lastHandler' = Handled("run", key, TRUE)
         /\ UNCHANGED <<insideDir, bEntrypoint, bCmd, issued, copyVars>>

\* env: the entries appended for the first n keys of the hash
envEntries(h, n) == [i \in 1..n |-> h[i][1] \o "=" \o h[i][2]]

env(args, key, img) ==
    LET h == args[1].h IN
    \E n \in 0..Len(h), outcome \in CommitOutcomes(FALSE) :
        LET cfg == [config EXCEPT !.Env = @ \o envEntries(h, n)] IN
        \* n < Len(h): the keys or the value of key n + 1 could not be read,
        \* and env returns before the commit (one outcome stands for it)
        /\ n < Len(h) => outcome = "commit"
        /\ config' = cfg
        /\ IF n < Len(h)
           THEN \* the hash could not be read at key n + 1
                /\ createException
                /\ imageID' = img
                /\ lastHandler' = Handled("env", key, FALSE)
                /\ UNCHANGED <<cache, nImages, layers, lastCommit>>
           ELSE /\ makeLayer("env", key, FALSE, cfg, img, outcome)
                /\ IF outcome = "ok"
                   THEN phase' = "eval" /\ val' = RubyNil
                   ELSE createException
                /\ lastHandler' = Handled("env", key, TRUE)
        /\ UNCHANGED <<insideDir, bEntrypoint, bCmd, issued, copyVars>>

\* debug: always runs; it leaves a cache entry, as a committing step does
debug(args, key, img) ==
    \E outcome \in CommitOutcomes(TRUE) :
        /\ makeLayer("debug", key, TRUE, config, img, outcome)
        /\ IF outcome = "ok"
           THEN phase' = "eval" /\ val' = RubyNil
           ELSE createException
        /\ lastHandler' = Handled("debug", key, TRUE)
        /\ UNCHANGED <<cfgVars, issued, copyVars>>

\* copy, up to the start of the commit goroutine; the arity of the verb gives
\* it two arguments, os.Getwd or filepath.Rel can fail
copy(args, key, img) ==
    \E wd \in {"ok", "err"} :
        /\ imageID' = img
        /\ IF wd = "err"
           THEN /\ createException
                /\ UNCHANGED copyVars
           ELSE /\ phase' = "eval"
                /\ val' = RubyNil
                /\ cm' = [at |-> "stat", id |-> steps + 1]
                /\ gos' = gos \cup {[id |-> steps + 1, key |-> key, args |-> args,
                                     at |-> "start", res |-> "", stream |-> "open",
                                     parent |-> "", cfg |-> InitConfig]}
        /\ lastHandler' = Handled("copy", key, wd = "ok")
        /\ UNCHANGED <<cfgVars, cache, nImages, layers, issued, lastCommit>>

\* the handler registered under the name of a verb
jumpTable(name, args, key, img) ==
    CASE name = "from"  -> from(args, key, img)
      [] name = "run"   -> run(args, key, img)
      [] name = "env"   -> env(args, key, img)
      [] name = "copy"  -> copy(args, key, img)
      [] name = "debug" -> debug(args, key, img)

----------------------------------------------------------------------------
(* The step wrapper *)

\* a wrapper that goes to the cache without looking at the context
wrapVerbFuncNoCtx(name, args) ==
    LET cacheKey == Fingerprint(name, args) IN
    \E cached \in CheckCache(cacheKey) :
        /\ lastProbe' = [verb |-> name, args |-> args, key |-> cacheKey, res |-> cached]
        /\ IF cached = "err"
           THEN /\ createException
                /\ lastHandler' = NoHandler
                /\ UNCHANGED <<cfgVars, execVars, copyVars, lastCommit>>
           ELSE IF invokesHandler(name, cached)
           THEN jumpTable(name, args, cacheKey,
                          IF cached = "hit" THEN cache[cacheKey] ELSE imageID)
           ELSE /\ imageID' = cache[cacheKey]
                /\ phase' = "eval"
                /\ val' = RubyNil
                /\ lastHandler' = NoHandler
                /\ UNCHANGED <<cfgVars, cache, nImages, layers, issued, copyVars,
                               lastCommit>>

\* the function wrapVerbFunc returns for the verb name, called with args; the
\* handler is given the cache key, and runs on the image current after the probe
wrapVerbFunc(name, args) ==
    LET cacheKey == Fingerprint(name, args) IN
    \* a context that is done has an error, so the return of nil, nil under
    \* the case of Done() is never taken
    IF ctx = "canceled"
    THEN /\ createException
         /\ lastProbe' = [verb |-> name, args |-> args, key |-> cacheKey, res |-> "canceled"]
         /\ lastHandler' = NoHandler
         /\ UNCHANGED <<cfgVars, execVars, copyVars, lastCommit>>
    ELSE \E cached \in CheckCache(cacheKey) :
         /\ lastProbe' = [verb |-> name, args |-> args, key |-> cacheKey, res |-> cached]
         /\ IF cached = "err"
            THEN /\ createException
                 /\ lastHandler' = NoHandler
                 /\ UNCHANGED <<cfgVars, execVars, copyVars, lastCommit>>
            ELSE IF invokesHandler(name, cached)
            THEN jumpTable(name, args, cacheKey,
                           IF cached = "hit" THEN cache[cacheKey] ELSE imageID)
            ELSE /\ imageID' = cache[cacheKey]
                 /\ phase' = "eval"
                 /\ val' = RubyNil
                 /\ lastHandler' = NoHandler
                 /\ UNCHANGED <<cfgVars, cache, nImages, layers, issued, copyVars, lastCommit>>

\* a statement of a script, as the trace keeps it
Stmt(name, args) == [verb |-> name, args |-> args]

\* the trace with one more statement
Traced(name, args) ==
    IF trace.on THEN [trace EXCEPT !.stmts = Append(@, Stmt(name, args))] ELSE trace

\* the evaluator is at a statement of the script and may call a verb
AtStatement ==
    /\ panicked = ""
    /\ phase = "eval"
    /\ cm.at = "none"
    /\ steps + calls < MaxOps

\* the evaluator calls a verb that AddVerb has defined
CallVerb(name, args) ==
    /\ AtStatement
    /\ steps' = steps + 1
    /\ wrapVerbFunc(name, args)
    /\ trace' = Traced(name, args)
    /\ UNCHANGED <<call, blocks, apiVars, prev, calls, pullVars, ctx>>

\* the statements of a script that call a verb
fromStep  == \E ref \in Refs : CallVerb("from", Strs(<<ref>>))
runStep   == \E args \in RunArgs : CallVerb("run", Strs(args))
envStep   == \E h \in EnvMaps : CallVerb("env", <<Hash(h)>>)
copyStep  == \E args \in CopyArgs : CallVerb("copy", Strs(args))
debugStep == CallVerb("debug", <<>>)


----------------------------------------------------------------------------
(* The functions called without the wrapper *)

\* the evaluator calls a function of funcJumpTable
CallFunc ==
    /\ AtStatement
    /\ steps' = steps + 1
    /\ lastProbe' = NoProbe
    /\ UNCHANGED <<call, execVars, copyVars, lastCommit, prev, calls, pullVars, ctx>>

cmd ==
    \E args \in CmdArgs :
        /\ CallFunc
        /\ bCmd' = args
        /\ trace' = Traced("cmd", Strs(args))
        /\ config' = [config EXCEPT !.Cmd = args]
        /\ val' = RubyNil
        /\ lastHandler' = Handled("cmd", <<>>, FALSE)
        /\ UNCHANGED <<insideDir, bEntrypoint, phase, blocks, apiVars>>

entrypoint ==
    \E args \in CmdArgs :
        /\ CallFunc
        /\ bEntrypoint' = args
        /\ trace' = Traced("entrypoint", Strs(args))
        /\ config' = [config EXCEPT !.Entrypoint = args]
        /\ val' = RubyNil
        /\ lastHandler' = Handled("entrypoint", <<>>, FALSE)
        /\ UNCHANGED <<insideDir, bCmd, phase, blocks, apiVars>>

\* after { ... }: registers the hook run at the end of the script
after ==
    /\ CallFunc
    /\ afterFunc' = TRUE
    /\ trace' = Traced("after", <<>>)
    /\ val' = RubyNil
    /\ lastHandler' = Handled("after", <<>>, FALSE)
    /\ UNCHANGED <<cfgVars, phase, blocks, result, runner, panicked, nRun, nClose,
                   ret, runRet, post>>

\* a block can be left when the evaluator has reached its end or an exception
\* unwinds through it
AtBlockEnd(verb) ==
    /\ panicked = ""
    /\ phase \in {"eval", "raise"}
    /\ cm.at = "none"
    /\ blocks # <<>>
    /\ blocks[Len(blocks)].verb = verb

\* the record of a block verb that has returned
Returned(verb) == [verb |-> verb, at |-> "return", key |-> <<>>, commit |-> FALSE]

\* withUser, up to the yield to the block
withUser ==
    \E u \in Users :
        /\ CallFunc
        /\ Len(blocks) < MaxDepth
        /\ config' = [config EXCEPT !.User = u]
        /\ blocks' = Append(blocks, [verb |-> "with_user", arg |-> u])
        /\ trace' = Traced("with_user", Strs(<<u>>))
        /\ val' = RubyNil
        /\ lastHandler' = Handled("with_user", <<>>, FALSE)
        /\ UNCHANGED <<insideDir, bEntrypoint, bCmd, phase, apiVars>>

\* a withUser that returns the exception of the block before clearing the user
withUserReturnEarly ==
    /\ AtBlockEnd("with_user")
    /\ config' = [config EXCEPT !.User = IF phase = "raise" THEN @ ELSE ""]
    /\ IF phase = "raise"
       THEN createException
       ELSE UNCHANGED <<phase, val>>
    /\ blocks' = SubSeq(blocks, 1, Len(blocks) - 1)
    /\ lastProbe' = NoProbe
    /\ lastHandler' = Returned("with_user")
    /\ UNCHANGED <<insideDir, bEntrypoint, bCmd, execVars, call, copyVars,
                   apiVars, lastCommit, prev, cntVars, pullVars, ctx>>
    /\ trace' = Traced("end", <<>>)

\* withUser, from the return of the yield: the block's value, or the exception
withUserReturn ==
    /\ AtBlockEnd("with_user")
    /\ config' = [config EXCEPT !.User = ""]
    /\ IF phase = "raise"
       THEN createException
       ELSE UNCHANGED <<phase, val>>
    /\ blocks' = SubSeq(blocks, 1, Len(blocks) - 1)
    /\ lastProbe' = NoProbe
    /\ lastHandler' = Returned("with_user")
    /\ UNCHANGED <<insideDir, bEntrypoint, bCmd, execVars, call, copyVars,
                   apiVars, lastCommit, prev, cntVars, pullVars, ctx>>
    /\ trace' = Traced("end", <<>>)

\* inside, up to the yield to the block
inside ==
    \E d \in Dirs :
        /\ CallFunc
        /\ Len(blocks) < MaxDepth
        /\ insideDir' = d
        /\ blocks' = Append(blocks, [verb |-> "inside", arg |-> d])
        /\ trace' = Traced("inside", Strs(<<d>>))
        /\ val' = RubyNil
        /\ lastHandler' = Handled("inside", <<>>, FALSE)
        /\ UNCHANGED <<config, bEntrypoint, bCmd, phase, apiVars>>

\* inside, from the return of the yield
insideReturn ==
    /\ AtBlockEnd("inside")
    /\ insideDir' = ""
    /\ IF phase = "raise"
       THEN createException
       ELSE UNCHANGED <<phase, val>>
    /\ blocks' = SubSeq(blocks, 1, Len(blocks) - 1)
    /\ lastProbe' = NoProbe
    /\ lastHandler' = Returned("inside")
    /\ UNCHANGED <<config, bEntrypoint, bCmd, execVars, call, copyVars,
                   apiVars, lastCommit, prev, cntVars, pullVars, ctx>>
    /\ trace' = Traced("end", <<>>)

\* the script itself fails: a ruby error outside the verbs
evalError ==
    /\ panicked = ""
    /\ phase = "eval"
    /\ cm.at = "none"
    /\ createException
    /\ UNCHANGED <<cfgVars, execVars, call, blocks, copyVars, apiVars, obsVars,
                   histVars, cntVars, pullVars, ctx>>

----------------------------------------------------------------------------
(* copy, after the commit goroutine has been started.  The tar stream goes  *)
(* through an unbuffered pipe: a write waits for the reader, which is the   *)
(* hook of the commit.                                                      *)

\* the goroutine started by the copy in progress
CopyGo == CHOOSE g \in gos : g.id = cm.id

\* the goroutines with g replaced by h
Become(g, h) == (gos \ {g}) \cup {h}

\* copy returns an exception and leaves its goroutine behind
copyFail ==
    /\ cm' = NoCopy
    /\ createException

\* os.Lstat(rel) and, for a directory, the close of the pipe
copyStat ==
    /\ panicked = ""
    /\ cm.at = "stat"
    /\ \E fi \in {"err", "dir", "file"} :
        CASE fi = "err"  -> /\ copyFail
                            /\ UNCHANGED gos
          [] fi = "dir"  -> /\ cm' = [cm EXCEPT !.at = "recv"]
                            /\ gos' = Become(CopyGo, [CopyGo EXCEPT !.stream = "empty"])
                            /\ UNCHANGED <<phase, val>>
          [] fi = "file" -> /\ cm' = [cm EXCEPT !.at = "write"]
                            /\ UNCHANGED <<gos, phase, val>>
    /\ UNCHANGED <<cfgVars, execVars, call, blocks, apiVars, obsVars, histVars,
                   cntVars, pullVars, ctx>>

\* the header, the file and the end of the tar stream, then the close of the pipe
copyWrite ==
    /\ panicked = ""
    /\ cm.at = "write"
    /\ \E w \in {"header", "open", "copy", "ok"} :
        \* tar.FileInfoHeader fails before anything is written; everything
        \* after it has written to the pipe, so the hook is reading
        /\ w # "header" => CopyGo.at = "hook"
        /\ IF w = "ok"
           THEN /\ cm' = [cm EXCEPT !.at = "recv"]
                /\ gos' = Become(CopyGo, [CopyGo EXCEPT !.stream = "tar"])
                /\ UNCHANGED <<phase, val>>
           ELSE /\ copyFail
                /\ UNCHANGED gos
    /\ UNCHANGED <<cfgVars, execVars, call, blocks, apiVars, obsVars, histVars,
                   cntVars, pullVars, ctx>>

\* <-errChan: the result of the commit
copyRecv ==
    /\ panicked = ""
    /\ cm.at = "recv"
    /\ CopyGo.at = "send"
    /\ gos' = gos \ {CopyGo}
    /\ cm' = NoCopy
    /\ IF CopyGo.res # ""
       THEN createException
       ELSE phase' = "eval" /\ val' = RubyNil
    /\ UNCHANGED <<cfgVars, execVars, call, blocks, apiVars, obsVars, histVars,
                   cntVars, pullVars, ctx>>

\* a commit goroutine starts its commit: the container is created from the
\* image and the config of that moment
goCommit ==
    /\ panicked = ""
    /\ \E g \in gos :
        /\ g.at = "start"
        /\ \E outcome \in {"commit", "running"} :
            /\ lastCommit' = [verb |-> "copy", fp |-> g.key, hook |-> TRUE,
                              parent |-> imageID, cfg |-> config, outcome |-> outcome]
            /\ gos' = Become(g, IF outcome = "commit"
                                THEN [g EXCEPT !.at = "send", !.res = "commit"]
                                ELSE [g EXCEPT !.at = "hook", !.parent = imageID,
                                                !.cfg = config])
    /\ UNCHANGED <<cfgVars, execVars, evalVars, cm, apiVars, lastProbe, lastHandler,
                   histVars, cntVars, pullVars, ctx>>

\* the hook (CopyToContainer) ends and the commit with it: the hook can fail at
\* any time, and succeeds only once the stream has ended
goHook ==
    /\ panicked = ""
    /\ \E g \in gos :
        /\ g.at = "hook"
        /\ \E outcome \in {"ok", "hook", "commit"} :
            /\ outcome # "hook" => g.stream # "open"
            /\ gos' = Become(g, [g EXCEPT !.at = "send",
                                          !.res = IF outcome = "ok" THEN "" ELSE outcome])
            /\ IF outcome = "ok"
               THEN /\ imageID' = NewImage
                    /\ nImages' = nImages + 1
                    /\ cache' = CachePut(g.key, NewImage)
                    /\ layers' = AddLayer("copy", g.args, g.parent, g.cfg)
               ELSE UNCHANGED <<imageID, nImages, cache, layers>>
    /\ UNCHANGED <<cfgVars, issued, evalVars, cm, apiVars, obsVars, histVars,
                   cntVars, pullVars, ctx>>

----------------------------------------------------------------------------
(* The entry points of the Builder *)

Result(value, err) == [FileName |-> FileName, Value |-> value, Err |-> err]

\* no entry point is in progress and another may be called
Idle ==
    /\ panicked = ""
    /\ phase = "idle"
    /\ steps + calls < MaxOps

\* the script has been evaluated to its end, or an exception has left it
AtScriptEnd ==
    /\ panicked = ""
    /\ phase \in {"eval", "raise"}
    /\ blocks = <<>>
    /\ cm.at = "none"

\* the images MakeImage has made of the current image and config
Finalized ==
    {i \in DOMAIN layers : /\ layers[i].verb = "MakeImage"
                           /\ layers[i].parent = imageID
                           /\ layers[i].cfg = config}

\* Layers().MakeImage(cfg): the current image and config become an image, the
\* same one when they are the same, or an error
MakeImage(ok) ==
    IF ok /\ Finalized = {}
    THEN /\ imageID' = NewImage
         /\ nImages' = nImages + 1
         /\ layers' = AddLayer("MakeImage", <<>>, imageID, config)
    ELSE /\ imageID' = (IF ok THEN CHOOSE i \in Finalized : TRUE ELSE imageID)
         /\ UNCHANGED <<nImages, layers>>

\* close(b.config.Runner), deferred by Run: closing a closed channel panics
closeRunner ==
    IF runner = "closed"
    THEN /\ panicked' = "close of closed channel"
         /\ UNCHANGED <<runner, nClose>>
    ELSE /\ runner' = "closed"
         /\ nClose' = nClose + 1
         /\ UNCHANGED panicked

\* the Builder has not been used: no entry point has been called on it
Fresh == result = NoResult /\ nRun = 0

\* the trace of a script that starts
Started == IF trace.on THEN [trace EXCEPT !.fresh = Fresh, !.stmts = <<>>] ELSE trace

\* the trace between two scripts
Stopped == [trace EXCEPT !.stmts = <<>>]

\* an entry point has been called: nothing has been returned or observed yet
Called ==
    /\ ret' = [op |-> "", result |-> NoResult]
    /\ lastProbe' = NoProbe
    /\ lastHandler' = NoHandler
    /\ lastCommit' = NoCommit
    /\ trace' = Started

\* RunScript, up to the evaluation of the script
RunScript ==
    /\ Idle
    /\ call' = "RunScript"
    /\ phase' = "eval"
    /\ val' = RubyNil
    /\ result' = Result(GoNil, "")
    /\ runRet' = [set |-> FALSE, result |-> NoResult]
    /\ post' = <<>>
    /\ calls' = calls + 1
    /\ Called
    /\ UNCHANGED <<cfgVars, execVars, blocks, copyVars, afterFunc, runner, panicked,
                   nRun, nClose, prev, steps, pullVars, ctx>>

\* a tail that takes the image id before the config is finalized
scriptTailStaleValue(failed, mk, af) ==
    IF failed
    THEN /\ result' = Result(GoNil, "script")
         /\ post' = <<>>
         /\ UNCHANGED <<imageID, nImages, layers>>
    ELSE IF mk = "err"
    THEN /\ result' = Result(GoNil, "finalize")
         /\ post' = <<"MakeImage">>
         /\ MakeImage(FALSE)
    ELSE /\ MakeImage(TRUE)
         /\ IF afterFunc /\ af = "err"
            THEN /\ result' = Result(GoNil, "after")
                 /\ post' = <<"MakeImage", "after">>
            ELSE /\ result' = Result(Str(imageID), "")
                 /\ post' = IF afterFunc THEN <<"MakeImage", "after", "value">>
                                         ELSE <<"MakeImage", "value">>

\* a tail that records the error of the script and goes on
scriptTailNoReturn(failed, mk, af) ==
    IF failed
    THEN /\ MakeImage(TRUE)
         /\ result' = Result(Str(imageID'), "script")
         /\ post' = <<"MakeImage", "value">>
    ELSE IF mk = "err"
    THEN /\ result' = Result(GoNil, "finalize")
         /\ post' = <<"MakeImage">>
         /\ MakeImage(FALSE)
    ELSE /\ MakeImage(TRUE)
         /\ IF afterFunc /\ af = "err"
            THEN /\ result' = Result(GoNil, "after")
                 /\ post' = <<"MakeImage", "after">>
            ELSE /\ result' = Result(Str(imageID'), "")
                 /\ post' = IF afterFunc THEN <<"MakeImage", "after", "value">>
                                         ELSE <<"MakeImage", "value">>

\* RunScript, from the return of LoadString: b.result and the steps taken
scriptTail(failed, mk, af) ==
    IF failed
    THEN /\ result' = Result(GoNil, "script")
         /\ post' = <<>>
         /\ UNCHANGED <<imageID, nImages, layers>>
    ELSE IF mk = "err"
    THEN /\ result' = Result(GoNil, "finalize")
         /\ post' = <<"MakeImage">>
         /\ MakeImage(FALSE)
    ELSE /\ MakeImage(TRUE)
         /\ IF afterFunc /\ af = "err"
            THEN /\ result' = Result(GoNil, "after")
                 /\ post' = <<"MakeImage", "after">>
            ELSE /\ result' = Result(Str(imageID'), "")
                 /\ post' = IF afterFunc THEN <<"MakeImage", "after", "value">>
                                         ELSE <<"MakeImage", "value">>

\* the record of the last script that a new Builder ran without error, when
\* the script in progress ends with the result res and the image img
Ended(res, img) ==
    IF trace.on /\ trace.fresh /\ res.Err = ""
    THEN [set |-> TRUE, stmts |-> trace.stmts, image |-> img]
    ELSE prev

\* the outcomes of MakeImage and of the after hook that the tail can meet
TailOutcomes(failed) ==
    {o \in {"ok", "err"} \X {"ok", "err"} :
        /\ failed => o = <<"ok", "ok">>
        /\ o[1] = "err" => o[2] = "ok"
        /\ ~afterFunc => o[2] = "ok"}

RunScriptReturn ==
    /\ AtScriptEnd
    /\ call = "RunScript"
    /\ \E o \in TailOutcomes(phase = "raise") : scriptTail(phase = "raise", o[1], o[2])
    /\ ret' = [op |-> "RunScript", result |-> result']
    /\ prev' = Ended(result', imageID')
    /\ call' = "none"
    /\ phase' = "idle"
    /\ UNCHANGED <<cfgVars, cache, issued, blocks, val, copyVars, afterFunc, runner,
                   panicked, nRun, nClose, runRet, obsVars, cntVars, pullVars, ctx>>
    /\ trace' = Stopped

\* a Run that closes the channel at its end only, not when it returns early
RunCloseAtEnd ==
    /\ Idle
    /\ calls' = calls + 1
    /\ \E read \in {"ok", "err"} :
        IF read = "err"
        THEN /\ ret' = [op |-> "Run", result |-> Result(GoNil, "read")]
             /\ runRet' = [set |-> TRUE, result |-> Result(GoNil, "read")]
             /\ nRun' = nRun + 1
             /\ UNCHANGED <<runner, nClose, panicked>>
             /\ UNCHANGED <<call, phase, val, result, post, obsVars, trace>>
        ELSE /\ call' = "Run"
             /\ phase' = "eval"
             /\ val' = RubyNil
             /\ result' = Result(GoNil, "")
             /\ runRet' = [set |-> FALSE, result |-> NoResult]
             /\ post' = <<>>
             /\ Called
             /\ UNCHANGED <<runner, panicked, nRun, nClose>>
    /\ UNCHANGED <<cfgVars, execVars, blocks, copyVars, afterFunc, prev, steps,
                   pullVars, ctx>>

\* Run, up to the evaluation of the script; when the file cannot be read Run
\* returns at once
Run ==
    /\ Idle
    /\ calls' = calls + 1
    /\ \E read \in {"ok", "err"} :
        IF read = "err"
        THEN /\ ret' = [op |-> "Run", result |-> Result(GoNil, "read")]
             /\ runRet' = [set |-> TRUE, result |-> Result(GoNil, "read")]
             /\ nRun' = nRun + 1
             /\ closeRunner
             /\ UNCHANGED <<call, phase, val, result, post, obsVars, trace>>
        ELSE /\ call' = "Run"
             /\ phase' = "eval"
             /\ val' = RubyNil
             /\ result' = Result(GoNil, "")
             /\ runRet' = [set |-> FALSE, result |-> NoResult]
             /\ post' = <<>>
             /\ Called
             /\ UNCHANGED <<runner, panicked, nRun, nClose>>
    /\ UNCHANGED <<cfgVars, execVars, blocks, copyVars, afterFunc, prev, steps,
                   pullVars, ctx>>

\* Run, from the return of LoadString inside RunScript to the deferred close
RunReturn ==
    /\ AtScriptEnd
    /\ call = "Run"
    /\ \E o \in TailOutcomes(phase = "raise") : scriptTail(phase = "raise", o[1], o[2])
    /\ ret' = [op |-> "Run", result |-> result']
    /\ runRet' = [set |-> TRUE, result |-> result']
    /\ nRun' = nRun + 1
    /\ closeRunner
    /\ prev' = Ended(result', imageID')
    /\ call' = "none"
    /\ phase' = "idle"
    /\ UNCHANGED <<cfgVars, cache, issued, blocks, val, copyVars, afterFunc, obsVars,
                   cntVars, pullVars, ctx>>
    /\ trace' = Stopped

\* RunCode, up to the evaluation of the compiled unit
RunCode ==
    /\ Idle
    /\ call' = "RunCode"
    /\ phase' = "eval"
    /\ val' = RubyNil
    /\ runRet' = [set |-> FALSE, result |-> NoResult]
    /\ post' = <<>>
    /\ calls' = calls + 1
    /\ Called
    /\ UNCHANGED <<cfgVars, execVars, blocks, copyVars, afterFunc, result, runner,
                   panicked, nRun, nClose, prev, steps, pullVars, ctx>>

\* the *MrbValue RunWithContext can return for the value of the unit: the
\* wrapping of a ruby nil is the evaluator's business
Returned_res(failed) ==
    IF failed THEN {GoNil}
    ELSE IF val = RubyNil THEN {GoNil, RubyNil}
    ELSE {val}

\* m.Yield(b.afterFunc) of RunCode, which does not look whether a hook is set
YieldOutcomes == IF afterFunc THEN {"ok", "err"} ELSE {"ok", "err", "panic"}

\* RunCode, from the return of RunWithContext
codeTail(failed, res, mk, af) ==
    IF failed
    THEN /\ result' = Result(res, "script")
         /\ post' = <<>>
         /\ UNCHANGED <<imageID, nImages, layers, panicked>>
    ELSE IF res # GoNil
    THEN /\ result' = Result(res, "")
         /\ post' = <<>>
         /\ UNCHANGED <<imageID, nImages, layers, panicked>>
    ELSE IF mk = "err"
    THEN /\ result' = Result(GoNil, "finalize")
         /\ post' = <<"MakeImage">>
         /\ MakeImage(FALSE)
         /\ UNCHANGED panicked
    ELSE /\ MakeImage(TRUE)
         /\ post' = IF af = "ok" THEN <<"MakeImage", "Yield", "value">>
                                 ELSE <<"MakeImage", "Yield">>
         /\ result' = CASE af = "ok"  -> Result(Str(imageID'), "")
                        [] af = "err" -> Result(res, "after")
                        [] OTHER      -> Result(res, "")
         /\ panicked' = IF af = "panic" THEN "nil block" ELSE ""

\* the outcomes of MakeImage and of the yield that the tail of RunCode can meet
CodeOutcomes(failed, res) ==
    {o \in {"ok", "err"} \X {"ok", "err", "panic"} :
        /\ (failed \/ res # GoNil) => o = <<"ok", "ok">>
        /\ o[1] = "err" => o[2] = "ok"
        /\ o[2] \in YieldOutcomes}

RunCodeReturn ==
    /\ AtScriptEnd
    /\ call = "RunCode"
    /\ \E res \in Returned_res(phase = "raise") :
       \E o \in CodeOutcomes(phase = "raise", res) :
           codeTail(phase = "raise", res, o[1], o[2])
    /\ ret' = [op |-> "RunCode", result |-> result']
    /\ call' = "none"
    /\ phase' = "idle"
    /\ UNCHANGED <<cfgVars, cache, issued, blocks, val, copyVars, afterFunc, runner,
                   nRun, nClose, runRet, obsVars, prev, cntVars, pullVars, ctx>>
    /\ trace' = Stopped

\* NewBuilder: another Builder, with its own config, evaluator and executor
\* handle, on the runtime the images and the cache of the earlier builds are
\* in; the model follows the new Builder from here
NewBuilder ==
    /\ panicked = ""
    /\ phase = "idle"
    /\ gos = {}
    /\ ~Fresh
    /\ config' = InitConfig
    /\ imageID' = ""
    /\ insideDir' = ""
    /\ bEntrypoint' = <<>>
    /\ bCmd' = <<>>
    /\ afterFunc' = FALSE
    /\ result' = NoResult
    /\ runner' = "open"
    /\ ctx' = "live"
    /\ nRun' = 0
    /\ nClose' = 0
    /\ ret' = [op |-> "", result |-> NoResult]
    /\ runRet' = [set |-> FALSE, result |-> NoResult]
    /\ post' = <<>>
    /\ val' = RubyNil
    /\ lastProbe' = NoProbe
    /\ lastHandler' = NoHandler
    /\ lastCommit' = NoCommit
    /\ trace' = [Stopped EXCEPT !.fresh = TRUE]
    /\ UNCHANGED <<cache, nImages, layers, issued, call, phase, blocks, copyVars,
                   panicked, prev, cntVars, pullVars>>

\* Wait: returns b.result once the Runner channel is closed
Wait ==
    /\ panicked = ""
    /\ phase = "idle"
    /\ runner = "closed"
    /\ ret' = [op |-> "Wait", result |-> result]
    /\ UNCHANGED <<cfgVars, execVars, evalVars, copyVars, afterFunc, result, runner,
                   panicked, nRun, nClose, runRet, post, obsVars, histVars, cntVars,
                   pullVars>>
    /\ UNCHANGED ctx

\* SetContext, between two entry points, with a context that is live or
\* already done
SetContext ==
    /\ panicked = ""
    /\ phase = "idle"
    /\ \E c \in {"live", "canceled"} :
        /\ c # ctx
        /\ ctx' = c
    /\ UNCHANGED <<cfgVars, execVars, evalVars, copyVars, apiVars, obsVars, histVars,
                   cntVars, pullVars>>

\* the owner of the context cancels it, or its deadline passes
cancel ==
    /\ panicked = ""
    /\ ctx = "live"
    /\ ctx' = "canceled"
    /\ UNCHANGED <<cfgVars, execVars, evalVars, copyVars, apiVars, obsVars, histVars,
                   cntVars, pullVars>>

----------------------------------------------------------------------------
(* Several Builders of one process running from at the same time.  Each has *)
(* passed the wrapper with a cache miss; only the handler is followed.      *)

\* from, up to the return of ImagePull
fromPull(p) ==
    /\ pc[p] = "idle"
    /\ \E ref \in Refs :
        /\ pullImage' = [pullImage EXCEPT ![p] = ref]
        /\ issued' = [issued EXCEPT ![ref] = @ + 1]
    /\ \E pull \in {"ok", "err"} :
        pc' = [pc EXCEPT ![p] = IF pull = "ok" THEN "reading" ELSE "failed"]
    /\ UNCHANGED <<cfgVars, imageID, cache, nImages, layers, evalVars, copyVars, apiVars,
                   obsVars, histVars, cntVars, pulls, ctx>>

\* from, reading the progress stream to its end
fromRead(p) ==
    /\ pc[p] = "reading"
    /\ \E stream \in {"ok", "err"} :
        pc' = [pc EXCEPT ![p] = IF stream = "ok" THEN "done" ELSE "failed"]
    /\ UNCHANGED <<cfgVars, execVars, evalVars, copyVars, apiVars, obsVars, histVars,
                   cntVars, pulls, pullImage, ctx>>

\* ResetPulls: the pulls map is replaced by an empty one
ResetPulls ==
    /\ pulls' = {}
    /\ UNCHANGED <<cfgVars, execVars, evalVars, copyVars, apiVars, obsVars, histVars,
                   cntVars, pc, pullImage, ctx>>

----------------------------------------------------------------------------
(* Specifications *)

\* one Builder: its entry points, the script it evaluates, its goroutines
Next ==
    \/ RunScript \/ RunScriptReturn
    \/ Run \/ RunReturn
    \/ RunCode \/ RunCodeReturn
    \/ Wait
    \/ SetContext \/ cancel
    \/ fromStep \/ runStep \/ envStep \/ copyStep \/ debugStep
    \/ cmd \/ entrypoint \/ after
    \/ withUser \/ withUserReturn
    \/ inside \/ insideReturn
    \/ evalError
    \/ copyStat \/ copyWrite \/ copyRecv
    \/ goCommit \/ goHook

Spec == Init /\ [][Next]_vars

\* the Builders of one process, each running from once
PullNext ==
    \/ \E p \in 1..NumBuilders : fromPull(p)
    \/ \E p \in 1..NumBuilders : fromRead(p)
    \/ ResetPulls

SpecPull == Init /\ [][PullNext]_vars

\* a build that is run again: Builders made one after the other on one
\* runtime, each running scripts of committing verbs
RerunNext ==
    \/ RunScript \/ RunScriptReturn
    \/ NewBuilder
    \/ fromStep \/ runStep \/ envStep \/ copyStep
    \/ cmd
    \/ copyStat \/ copyWrite \/ copyRecv
    \/ goCommit \/ goHook

SpecRerun == InitRerun /\ [][RerunNext]_vars

----------------------------------------------------------------------------
(* The properties *)

Range(f) == {f[i] : i \in DOMAIN f}

\* C1: in a step that went through the wrapper, when the cache probe is a hit
\* and the verb is not debug, the handler is not invoked and the step asks for
\* no commit; when the probe is a miss, or the verb is debug, the handler is
\* invoked, once, with the fingerprint of the step.
C1_HitSkipsHandler ==
    /\ (lastProbe.res = "hit" /\ lastProbe.verb # "debug")
          => lastHandler = NoHandler
    /\ (lastProbe.res = "miss" \/ (lastProbe.res = "hit" /\ lastProbe.verb = "debug"))
          => /\ lastHandler.at = "call"
             /\ lastHandler.verb = lastProbe.verb
             /\ lastHandler.key = lastProbe.key
             /\ lastProbe.key = Fingerprint(lastProbe.verb, lastProbe.args)

\* a committing step other than debug met a hit and was skipped
C1_Witness ==
    /\ lastProbe.res = "hit"
    /\ lastProbe.verb = "env"
    /\ lastHandler = NoHandler

\* C2: when several Builders run from at the same time, no more than one
\* pull of a ref is issued to the runtime client.
C2_OnePullPerRef == \A r \in Refs : issued[r] <= 1

\* C3: whenever run, env or copy asks for a commit, the image id of the
\* Builder is not empty.
C3_CommitAfterFrom ==
    lastCommit.verb \in {"run", "env", "copy"} => lastCommit.parent # ""

\* C4: a run that overrides the config leaves entrypoint, cmd and working_dir
\* as they were before the call, however the commit ended.
C4_RunRestoresConfig ==
    [][(steps' = steps + 1 /\ lastHandler'.verb = "run" /\ lastHandler'.commit)
          => /\ config'.Entrypoint = config.Entrypoint
             /\ config'.Cmd = config.Cmd
             /\ config'.WorkingDir = config.WorkingDir]_vars

\* a run inside a directory block whose command failed: the container ran in
\* that directory, the config is back to another one
C4_Witness ==
    /\ lastHandler.verb = "run"
    /\ lastCommit.verb = "run"
    /\ lastCommit.outcome = "hook"
    /\ insideDir # ""
    /\ lastCommit.cfg.WorkingDir = insideDir
    /\ lastCommit.cfg.Entrypoint = ShellEntrypoint
    /\ config.WorkingDir # insideDir
    /\ config.Entrypoint # ShellEntrypoint

\* C5: when with_user has returned the user of the config is empty, and when
\* inside has returned inside_dir is empty, whether the block ended or failed.
C5_BlockClears ==
    /\ lastHandler = Returned("with_user") => config.User = ""
    /\ lastHandler = Returned("inside") => insideDir = ""

\* with_user has returned the exception of its block
C5_Witness ==
    /\ lastHandler = Returned("with_user")
    /\ phase = "raise"
    /\ config.User = ""

C7_WaitReturnsRunResult ==
    (ret.op = "Wait" /\ runRet.set) => ret.result = runRet.result

\* C8: when RunScript or Run ends without error, MakeImage was called once,
\* then the after hook if and only if one is registered, then the value was
\* set; the value is the current image id.
C8_PostEvaluation ==
    (ret.op \in {"RunScript", "Run"} /\ ret.result.Err = "")
        => /\ post = (IF afterFunc THEN <<"MakeImage", "after", "value">>
                                   ELSE <<"MakeImage", "value">>)
           /\ ret.result.Value = Str(imageID)

\* a Run with an after hook has ended without error
C8_Witness ==
    /\ ret.op = "Run"
    /\ ret.result.Err = ""
    /\ afterFunc
    /\ post = <<"MakeImage", "after", "value">>

\* C9: when the evaluation of the unit succeeds, RunCode calls MakeImage and
\* yields to the after hook only if one is registered.
C9_RunCodeSameProtocol ==
    (ret.op = "RunCode" /\ ret.result.Err # "script")
        => /\ post # <<>>
           /\ post[1] = "MakeImage"
           /\ "Yield" \in Range(post) => afterFunc

\* C10: an error ends the entry point where it occurs: after a script error
\* no post-evaluation step is taken, after a finalize error the after hook
\* is not called, and in these cases and when the hook fails the result has
\* the error and no value.
C10_ErrorsAbort ==
    ret.op \in {"RunScript", "Run", "RunCode"}
        => /\ ret.result.Err = "script" => post = <<>>
           /\ ret.result.Err = "finalize" => post = <<"MakeImage">>
           /\ ret.result.Err = "after" =>
                 (Len(post) = 2 /\ post[1] = "MakeImage" /\ post[2] \in {"after", "Yield"})
           /\ ret.result.Err \in {"script", "finalize", "after"} =>
                 (ret.result.Value = GoNil /\ ret.result = result)

\* RunScript has returned the error of a script that failed
C10_Witness ==
    /\ ret.op = "RunScript"
    /\ ret.result.Err = "script"
    /\ post = <<>>
    /\ ret.result.Value = GoNil

\* C11: when a script whose last statement was a run before any from (run
\* found no image and returned its diagnostic) ends, and neither the executor
\* nor an after hook failed behind it, the result has the diagnostic as its
\* value and no error, and no commit was asked for the step.
C11_RunWithoutFrom ==
    (/\ ret.op \in {"RunScript", "Run", "RunCode"}
     /\ lastHandler = Handled("run", lastProbe.key, FALSE)
     /\ val = Str(FromMessage)
     /\ ret.result.Err \notin {"finalize", "after"})
        => /\ ret.result.Value = Str(FromMessage)
           /\ ret.result.Err = ""
           /\ lastCommit.fp # lastProbe.key

\* C12: when a script ends without error on a new Builder, and the same
\* statements were the last script that a new Builder ran without error on the
\* runtime whose cache the Builder uses, the script has asked for no commit
\* and ends with the image id that run ended with.
C12_WarmRerun ==
    [][(/\ call = "RunScript"
        /\ ret'.op = "RunScript"
        /\ ret'.result.Err = ""
        /\ trace.fresh
        /\ prev.set
        /\ prev.stmts = trace.stmts)
          => /\ lastCommit = NoCommit
             /\ imageID' = prev.image]_vars

\* C13: a step of a wrapped verb that is invoked when the context is done
\* raises an exception; the cache is not probed, the handler is not invoked,
\* no commit is asked for, and the image id and the config stay as they were.
C13_DoneContextFails ==
    [][(steps' = steps + 1 /\ lastProbe'.verb # "" /\ ctx = "canceled")
          => /\ phase' = "raise"
             /\ lastProbe'.res = "canceled"
             /\ lastHandler' = NoHandler
             /\ lastCommit' = lastCommit
             /\ imageID' = imageID
             /\ config' = config
             /\ cache' = cache]_vars

\* a run after a from has met a context that is done
C13_Witness ==
    /\ ctx = "canceled"
    /\ lastProbe.verb = "run"
    /\ lastProbe.res = "canceled"
    /\ phase = "raise"
    /\ imageID \in Refs


\* C14: a step of a wrapped verb that fails leaves the image id of the Builder
\* as it was before the call; in particular a from whose pull fails.
C14_FailedStepKeepsImage ==
    [][(steps' = steps + 1 /\ lastProbe'.verb # "" /\ phase' = "raise")
          => imageID' = imageID]_vars


\* C15: when the wrapper probes the cache for a step, every commit that an
\* earlier step started has ended, the commits of the goroutines of copy too.
C15_CommitBeforeNextProbe ==
    [][(steps' = steps + 1 /\ lastProbe'.res \in {"hit", "miss", "err"})
          => \A g \in gos : g.at \notin {"start", "hook"}]_vars


\* C20: when copy is not in progress no commit goroutine is left: each one
\* that a copy started has ended and its result has been received before the
\* copy returned, on the failure paths too.
C20_CopyJoinsCommit == cm.at = "none" => gos = {}


\* C16: when a step env(map) has ended without an exception, on a cache hit
\* as on a miss, the env of the config is what it was before, followed by one
\* KEY=VALUE entry per entry of the map in the order of its keys, and the
\* step has asked for one commit, without a run-hook.
C16_EnvAppendsAndCommits ==
    [][(/\ steps' = steps + 1
        /\ lastProbe'.verb = "env"
        /\ lastProbe'.res \in {"hit", "miss"}
        /\ phase' = "eval")
          => LET h == lastProbe'.args[1].h IN
             /\ config'.Env = config.Env \o envEntries(h, Len(h))
             /\ lastHandler' = Handled("env", lastProbe'.key, TRUE)
             /\ lastCommit'.fp = lastProbe'.key
             /\ ~lastCommit'.hook]_vars


\* the open blocks of the verb, outermost first
Open(verb) == SelectSeq(blocks, LAMBDA b : b.verb = verb)

\* the argument of the innermost open block of the verb
Innermost(verb) == Open(verb)[Len(Open(verb))].arg

\* C17: a statement executed inside a with_user block finds the user of the
\* config equal to the user of the block, and one executed inside an inside
\* block finds inside_dir equal to the directory of the block, and a run there
\* commits with that working directory; also after a block nested in the
\* block has returned.
C17_BlocksNest ==
    [][(steps' = steps + 1)
          => /\ Open("with_user") # <<>> => config.User = Innermost("with_user")
             /\ Open("inside") # <<>> =>
                   /\ insideDir = Innermost("inside")
                   /\ (lastHandler'.verb = "run" /\ lastHandler'.commit)
                         => lastCommit'.cfg.WorkingDir = Innermost("inside")]_vars


\* C18: two invocations that differ in the verb or in the list of their
\* arguments never have the same cache key: when a step is skipped on a cache
\* hit, the image it adopts was made by a step of the same verb and arguments.
C18_FingerprintInjective ==
    [][(steps' = steps + 1 /\ lastProbe'.res = "hit")
          => LET made == layers[cache[lastProbe'.key]] IN
             /\ made.verb = lastProbe'.verb
             /\ made.args = lastProbe'.args]_vars


\* C19: when a step is skipped on a cache hit, the image it adopts was made
\* by a commit on the image that was current when the cache was probed.
C19_HitKeepsLineage ==
    [][(steps' = steps + 1 /\ lastProbe'.res = "hit" /\ lastHandler' = NoHandler)
          => layers[imageID'].parent = imageID]_vars


====
